---- MODULE Spec2Model ----
(***************************************************************************)
(* Traffic scenario builder: the trajectory interpolator                   *)
(* (Vehicle.get_position_at_time of vehicle_editor_fixed.py, of            *)
(* vehicle_editor_v3.py and of vehicle_editor_with_assets.py) and the      *)
(* editor's clock, stores, project files and video export.                 *)
(*                                                                         *)
(* Time is an integer count of units of 1/30000 s, so that one export      *)
(* frame (1/30 s), one timer tick (0.033 s) and one dialog step (0.1 s)    *)
(* are all whole numbers.  A coordinate is an exact rational, kept as a    *)
(* normalised pair <<n, d>>.  Floating-point rounding is modelled where it *)
(* changes an outcome, in the frame count of export_video.                 *)
(*                                                                         *)
(* The specifications share the variables and the initial state and differ *)
(* in the handlers they let run: SpecInterp and SpecAddPoint call one      *)
(* method of Vehicle on drawn inputs, SpecCompare the interpolators of the *)
(* three editors on the same input; Spec is the clock, the trajectory      *)
(* editing and the export; SpecExport, SpecOverlay, SpecScene, SpecRoads,  *)
(* SpecLock, SpecIds, SpecWaypoints, SpecClock, SpecDuration and           *)
(* SpecTarget are the editor's handlers around one subject each; SpecV3 is *)
(* the vehicle list of vehicle_editor_v3.py; SpecProject is the project    *)
(* file of vehicle_editor_fixed.py and of vehicle_editor_with_assets.py.   *)
(***************************************************************************)
EXTENDS Integers, Sequences, FiniteSets, TLC

\* ------------------------------------------------------------------------
\* Units
\* ------------------------------------------------------------------------
Second == 30000
DialogStep == 3000
HalfStep == 1500

\* ------------------------------------------------------------------------
\* Bounds of the interpolator's inputs
\* ------------------------------------------------------------------------
MaxLen == 3
MaxTime == 2

\* ------------------------------------------------------------------------
\* Exact rationals
\* ------------------------------------------------------------------------
Abs(n) == IF n < 0 THEN -n ELSE n

RECURSIVE GCD(_, _)
GCD(a, b) == IF b = 0 THEN a ELSE GCD(b, a % b)

ZeroDivisionError == [error |-> "ZeroDivisionError"]
IndexError == [error |-> "IndexError"]

IsError(v) == v = ZeroDivisionError \/ v = IndexError

\* n / d as a normalised rational; Python raises on d = 0
Frac(n, d) ==
    IF d = 0 THEN ZeroDivisionError
    ELSE LET s == IF d < 0 THEN -1 ELSE 1
             g == GCD(Abs(n), Abs(d))
         IN  <<(s * n) \div g, (s * d) \div g>>

Whole(n) == <<n, 1>>

\* ------------------------------------------------------------------------
\* TrajectoryPoint and the interpolator of vehicle_editor_fixed.py
\* ------------------------------------------------------------------------
TrajectoryPoint(x, y, time, pause_duration) ==
    [x |-> x, y |-> y, time |-> time, pause_duration |-> pause_duration]

\* (point.x, point.y)
PointPos(point) == [x |-> Whole(point.x), y |-> Whole(point.y)]

\* a slip: the ratio measured from the arrival, not from the departure
InterpolateFromArrival(point, next_point, t, departure_time) ==
    LET den == next_point.time - point.time
        num == t - point.time
    IN  IF den = 0 THEN ZeroDivisionError
        ELSE [x |-> Frac(point.x * den + (next_point.x - point.x) * num, den),
              y |-> Frac(point.y * den + (next_point.y - point.y) * num, den)]

\* ratio = (t - departure_time) / (next_point.time - departure_time)
\* x = point.x + (next_point.x - point.x) * ratio, and y likewise
Interpolate(point, next_point, t, departure_time) ==
    LET den == next_point.time - departure_time
        num == t - departure_time
    IN  IF den = 0 THEN ZeroDivisionError
        ELSE [x |-> Frac(point.x * den + (next_point.x - point.x) * num, den),
              y |-> Frac(point.y * den + (next_point.y - point.y) * num, den)]

\* a slip: the pause window without the pause
InPauseIgnoresPause(point, t) == point.time <= t /\ t <= point.time

\* if arrival_time <= t <= departure_time
InPause(point, t) ==
    point.time <= t /\ t <= point.time + point.pause_duration

\* if departure_time <= t <= next_point.time
InTravel(point, next_point, t) ==
    point.time + point.pause_duration <= t /\ t <= next_point.time

\* a slip: the first point's window without its arrival time
FirstHoldsIgnoresArrival(point, t) == t <= point.pause_duration

\* if t <= point.time + point.pause_duration   (the i == 0 branch)
FirstHolds(point, t) == t <= point.time + point.pause_duration

\* if next_point.time - departure_time == 0: return (point.x, point.y)
SegmentOrPoint(point, next_point, t) ==
    LET departure_time == point.time + point.pause_duration
    IN  IF next_point.time - departure_time = 0 THEN PointPos(point)
        ELSE Interpolate(point, next_point, t, departure_time)

\* self.trajectory[i]; Python raises IndexError outside the list
At(traj, i) == IF i \in 1..Len(traj) THEN traj[i] ELSE IndexError

\* a slip: the bound of the look-ahead off by one
HasNextOffByOne(traj, i) == i <= Len(traj)

\* if i < len(self.trajectory) - 1   (i counted from 1 here)
HasNext(traj, i) == i < Len(traj)

\* the body of "for i in range(len(self.trajectory))", i counted from 1,
\* and the return after the loop
RECURSIVE WalkFixed(_, _, _)
WalkFixed(traj, t, i) ==
    IF i > Len(traj) THEN PointPos(traj[Len(traj)])
    ELSE LET point == traj[i] IN
         IF i > 1
         THEN IF InPause(point, t) THEN PointPos(point)
              ELSE IF HasNext(traj, i)
                   THEN LET next_point == At(traj, i + 1) IN
                        IF next_point = IndexError THEN IndexError
                        ELSE IF InTravel(point, next_point, t)
                             THEN SegmentOrPoint(point, next_point, t)
                             ELSE WalkFixed(traj, t, i + 1)
                   ELSE WalkFixed(traj, t, i + 1)
         ELSE IF FirstHolds(point, t) THEN PointPos(point)
              ELSE IF Len(traj) > 1
                   THEN LET next_point == At(traj, 2) IN
                        IF next_point = IndexError THEN IndexError
                        ELSE IF t <= next_point.time
                             THEN SegmentOrPoint(point, next_point, t)
                             ELSE WalkFixed(traj, t, i + 1)
                   ELSE WalkFixed(traj, t, i + 1)

GetPositionAtTime(traj, t) ==
    IF Len(traj) = 0 THEN [x |-> Whole(100), y |-> Whole(100)]
    ELSE IF Len(traj) = 1 THEN PointPos(traj[1])
    ELSE IF t <= 0 THEN PointPos(traj[1])
    ELSE WalkFixed(traj, t, 1)

\* ------------------------------------------------------------------------
\* The interpolator of vehicle_editor_v3.py
\* ------------------------------------------------------------------------
\* ratio = (t - accumulated_time) / move_time
InterpolateV3(point, next_point, t, accumulated_time, move_time) ==
    IF move_time = 0 THEN ZeroDivisionError
    ELSE [x |-> Frac(point.x * move_time
                       + (next_point.x - point.x) * (t - accumulated_time),
                     move_time),
          y |-> Frac(point.y * move_time
                       + (next_point.y - point.y) * (t - accumulated_time),
                     move_time)]

\* if move_time > 0: interpolate, else: return (point.x, point.y)
MoveOrPointV3(point, next_point, t, accumulated_time, move_time) ==
    IF move_time > 0
    THEN InterpolateV3(point, next_point, t, accumulated_time, move_time)
    ELSE PointPos(point)

RECURSIVE WalkV3(_, _, _, _)
WalkV3(traj, t, i, accumulated_time) ==
    IF i > Len(traj) THEN PointPos(traj[Len(traj)])
    ELSE IF HasNext(traj, i)
    THEN LET point == traj[i]
             next_point == At(traj, i + 1)
             move_time == next_point.time - point.time
             arrived == accumulated_time + move_time
         IN  IF next_point = IndexError THEN IndexError
             ELSE IF accumulated_time <= t /\ t < accumulated_time + move_time
             THEN MoveOrPointV3(point, next_point, t, accumulated_time,
                                move_time)
             ELSE IF arrived <= t /\ t < arrived + point.pause_duration
                  THEN PointPos(point)
                  ELSE WalkV3(traj, t, i + 1,
                              arrived + point.pause_duration)
    ELSE WalkV3(traj, t, i + 1, accumulated_time)

GetPositionAtTimeV3(traj, t) ==
    IF Len(traj) = 0 THEN [x |-> Whole(100), y |-> Whole(100)]
    ELSE IF Len(traj) = 1 THEN PointPos(traj[1])
    ELSE IF t <= 0 THEN PointPos(traj[1])
    ELSE WalkV3(traj, t, 1, 0)

\* ------------------------------------------------------------------------
\* Inputs of the interpolator
\* ------------------------------------------------------------------------
\* the scene position clicked for waypoint i: the corners of a square in
\* turn, so that consecutive waypoints are at different places
Corner(i) ==
    <<IF i % 4 \in {2, 3} THEN 100 ELSE 0, IF i % 4 \in {3, 0} THEN 100 ELSE 0>>

\* arrival times and pauses the dialog can give (one decimal: 0.1 s steps)
Times == {DialogStep * k : k \in 0..MaxTime}
Pauses == {0, DialogStep, 2 * DialogStep}

\* the waypoint lists of length k, any arrival times and pauses, in any order
TrajectoriesOfLen(k) ==
    {[i \in 1..k |->
        TrajectoryPoint(Corner(i)[1], Corner(i)[2], f[i][1], f[i][2])] :
        f \in [1..k -> Times \X Pauses]}

\* the vehicle of the scenario: (0,0,t=0,pause=0), (100,0,t=2,pause=1),
\* (100,100,t=4,pause=0)
ScenarioTrajectory ==
    <<TrajectoryPoint(0, 0, 0, 0),
      TrajectoryPoint(100, 0, 2 * Second, Second),
      TrajectoryPoint(100, 100, 4 * Second, 0)>>

ScenarioTimes == {Second, 5 * HalfStep * 10, 3 * Second, 7 * HalfStep * 10,
                  10 * Second}

TrajectoryInputs ==
    UNION {TrajectoriesOfLen(k) : k \in 0..MaxLen} \cup {ScenarioTrajectory}

\* query times: every half step from before 0 to after the last departure
QueryTimes ==
    {HalfStep * k : k \in (-2)..(2 * (MaxTime + 2) + 2)}
        \cup ScenarioTimes

\* no project file has been written
NoDocument == [vehicles |-> <<>>, none |-> TRUE]

\* update_status(message): the status bar reports what the handler did
Info == "info"
\* update_status: the road is locked and cannot be moved
RoadLockedStatus == "road locked, cannot move"
\* QMessageBox.warning: the road is locked and cannot be removed
RoadLockedWarning == "road locked, cannot remove"

NoCall == [error |-> "NoCall"]
\* no export has written a file yet
NoVideo == [fps |-> 0, width |-> 0, height |-> 0, frames |-> <<>>]
\* Python's None where a vehicle id is expected (ids are 0, 1, ...)
None == -1

\* ------------------------------------------------------------------------
\* Bounds of the editor
\* ------------------------------------------------------------------------
MaxVehicles == 1
MaxWaypoints == 2
MaxCameras == 1
MaxLabels == 1
MaxTicks == 5
MaxRoads == 2
MaxVehiclesV3 == 3
\* the value an id counter is followed up to
MaxIds == 3

\* ------------------------------------------------------------------------
\* Program constants of vehicle_editor_fixed.py
\* ------------------------------------------------------------------------
Fps == 30
TickStep == 990
InitialMaxTime == 300000
SliderMax == 1000
LeftMargin == 200
TopMargin == 100
RoadWidth == 2000
RoadHeight == 420

\* what the user can enter: click positions, dialog values, slider values
ClickPoints == {<<0, 0>>, <<100, 40>>}
EditTimes == {0, DialogStep, 2 * Second, 41 * DialogStep}
EditPauses == {0}
SliderValues == {0, 500, SliderMax}
NearEndSliderValues == {0, 670}
\* values of max_time_spin of vehicle_editor_with_assets.py (1.0..60.0)
MaxTimeValues == {Second, 2 * Second, 10 * Second}
LabelTexts == {"A"}
\* names of the vehicle assets offered by vehicle_list
VehicleAssets == {"car", "truck"}
\* values of the two margin spin boxes (0..500) and places a road is dropped
MarginValues == {0, LeftMargin}
TopMarginValues == {0, TopMargin}
RoadDrops == {<<250, 60>>}
\* arrival times and pauses handed to Vehicle.add_trajectory_point by a
\* caller, the invalid ones among them
PointTimes == {0 - Second, 0 - DialogStep, 0, DialogStep, Second}
PointPauses == {0 - DialogStep, 0, DialogStep}
\* centres of a vehicle's sprite where it is dropped
VehicleDrops == {<<60, 150>>}

\* ------------------------------------------------------------------------
\* vehicle_editor_with_assets.py: Vehicle.get_position_at_time
\* ------------------------------------------------------------------------
\* a slip: the ratio measured from time 0, not from p1.time
InterpolateWAFromZero(p1, p2, t) ==
    LET den == p2.time
        num == t
    IN  IF den = 0 THEN ZeroDivisionError
        ELSE [x |-> Frac(p1.x * den + (p2.x - p1.x) * num, den),
              y |-> Frac(p1.y * den + (p2.y - p1.y) * num, den)]

\* ratio = (t - p1.time) / (p2.time - p1.time)
\* x = p1.x + (p2.x - p1.x) * ratio, and y likewise
InterpolateWA(p1, p2, t) ==
    LET den == p2.time - p1.time
        num == t - p1.time
    IN  IF den = 0 THEN ZeroDivisionError
        ELSE [x |-> Frac(p1.x * den + (p2.x - p1.x) * num, den),
              y |-> Frac(p1.y * den + (p2.y - p1.y) * num, den)]

\* the body of "for i in range(len(self.trajectory) - 1)", i counted from
\* 1, and the return after the loop
RECURSIVE WalkWA(_, _, _)
WalkWA(traj, t, i) ==
    IF i > Len(traj) - 1 THEN PointPos(traj[Len(traj)])
    ELSE LET p1 == traj[i]
             p2 == traj[i + 1]
         IN  IF p1.time <= t /\ t <= p2.time
             THEN IF p2.time - p1.time = 0 THEN PointPos(p1)
                  ELSE InterpolateWA(p1, p2, t)
             ELSE WalkWA(traj, t, i + 1)

\* self.trajectory[0] of an empty list raises IndexError
GetPositionAtTimeWA(traj, t) ==
    IF Len(traj) = 0 THEN IndexError
    ELSE IF t <= 0 THEN PointPos(traj[1])
    ELSE IF t >= traj[Len(traj)].time THEN PointPos(traj[Len(traj)])
    ELSE WalkWA(traj, t, 1)

VARIABLES
    trajectory,          \* self.trajectory of the vehicle queried
    t,                   \* the query time
    position,            \* value returned by vehicle_editor_fixed's method
    position_v3,         \* value returned by vehicle_editor_v3's method
    position_wa,         \* value returned by vehicle_editor_with_assets's
    roads,               \* self.roads
    vehicles,            \* self.vehicles
    cameras,             \* self.cameras
    text_labels,         \* self.text_labels
    next_vehicle_id,
    next_camera_id,
    next_road_id,
    current_time,        \* self.current_time
    max_time,            \* self.max_time
    is_playing,          \* self.is_playing; the timer runs exactly then
    show_trajectory,     \* self.show_trajectory
    slider_value,        \* self.time_slider.value()
    selected_vehicle,    \* id of self.selected_vehicle, or None
    btn_edit_trajectory, \* self.btn_edit_trajectory.isChecked()
    selecting_trajectory,\* self.scene.selecting_trajectory
    current_vehicle,     \* id of self.scene.current_vehicle, or None
    scene_items,         \* the items of self.scene, in the order added
    scene_rect,          \* self.scene.sceneRect()
    exported,            \* the video file the last export wrote, or NoVideo
    selected_road,       \* id of self.selected_road, or None
    btn_lock_road,       \* self.btn_lock_road.isChecked()
    left_margin,         \* self.left_margin
    top_margin,          \* self.top_margin
    notice,              \* the last message shown: the status bar's text or
                         \* a warning box
    camera_row,          \* current row of self.camera_selector, or None
    vehicles_v3,         \* self.vehicles of vehicle_editor_v3.py
    selected_vehicle_v3, \* row of its self.selected_vehicle, or None
    removed_ids_v3,      \* history: the ids of the vehicles removed there
    store_wa,            \* vehicles, cameras, text_labels and max_time of
                         \* vehicle_editor_with_assets.py
    document             \* the project file last written, or NoDocument

interpVars == <<trajectory, t, position, position_v3, position_wa>>

storeVars == <<roads, vehicles, cameras, text_labels,
               next_vehicle_id, next_camera_id, next_road_id>>

clockVars == <<current_time, max_time, is_playing, show_trajectory,
               slider_value>>

editVars == <<selected_vehicle, btn_edit_trajectory, selecting_trajectory,
              current_vehicle>>

sceneVars == <<scene_items, scene_rect>>

roadVars == <<selected_road, btn_lock_road, left_margin, top_margin>>

v3Vars == <<vehicles_v3, selected_vehicle_v3, removed_ids_v3>>

fileVars == <<store_wa, document>>

editorVars == <<storeVars, clockVars, editVars, sceneVars, exported,
                roadVars, notice, camera_row, v3Vars, fileVars>>

vars == <<interpVars, editorVars>>

\* ------------------------------------------------------------------------
\* redraw_scene
\* ------------------------------------------------------------------------
Max(S) == CHOOSE m \in S : \A n \in S : n <= m

\* for road in self.roads: item.setPos(road.x, road.y)
RoadItems(rds) ==
    [i \in 1..Len(rds) |->
        [kind |-> "road", id |-> rds[i].id, x |-> rds[i].x, y |-> rds[i].y]]

\* for camera in self.cameras: the sprite centred on (camera.x, camera.y)
CameraItems(cams) ==
    [i \in 1..Len(cams) |->
        [kind |-> "camera", id |-> cams[i].id, x |-> cams[i].x,
         y |-> cams[i].y]]

\* the dashed lines between consecutive waypoints, then a dot per waypoint
OverlayItems(vehicle) ==
    [i \in 1..(Len(vehicle.trajectory) - 1) |->
        [kind |-> "line", id |-> vehicle.id,
         x1 |-> vehicle.trajectory[i].x, y1 |-> vehicle.trajectory[i].y,
         x2 |-> vehicle.trajectory[i + 1].x,
         y2 |-> vehicle.trajectory[i + 1].y]]
    \o
    [i \in 1..Len(vehicle.trajectory) |->
        [kind |-> "dot", id |-> vehicle.id,
         x |-> vehicle.trajectory[i].x, y |-> vehicle.trajectory[i].y]]

\* if self.show_trajectory and not self.is_playing
\*    and len(vehicle.trajectory) > 1
OverlayShown(vehicle, show, playing) ==
    show /\ ~playing /\ Len(vehicle.trajectory) > 1

\* the vehicle's sprite, centred on its position: its only waypoint or its
\* default place when it has at most one waypoint (a draggable item),
\* get_position_at_time(self.current_time) otherwise
VehicleItem(vehicle, now) ==
    IF Len(vehicle.trajectory) <= 1
    THEN [kind |-> "vehicle", id |-> vehicle.id, draggable |-> TRUE,
          pos |-> IF Len(vehicle.trajectory) = 1
                  THEN PointPos(vehicle.trajectory[1])
                  ELSE [x |-> Whole(100 + vehicle.id * 50), y |-> Whole(150)]]
    ELSE [kind |-> "vehicle", id |-> vehicle.id, draggable |-> FALSE,
          pos |-> GetPositionAtTime(vehicle.trajectory, now)]

RECURSIVE VehicleItems(_, _, _, _, _)
VehicleItems(vs, i, show, playing, now) ==
    IF i > Len(vs) THEN <<>>
    ELSE (IF OverlayShown(vs[i], show, playing)
          THEN OverlayItems(vs[i]) ELSE <<>>)
         \o <<VehicleItem(vs[i], now)>>
         \o VehicleItems(vs, i + 1, show, playing, now)

LabelItems(labels) ==
    [i \in 1..Len(labels) |->
        [kind |-> "text", text |-> labels[i].text, x |-> labels[i].x,
         y |-> labels[i].y]]

\* self.scene.clear() and the five drawing loops
SceneItems(rds, cams, vs, labels, show, playing, now) ==
    RoadItems(rds) \o CameraItems(cams)
        \o VehicleItems(vs, 1, show, playing, now) \o LabelItems(labels)

\* if self.roads: self.scene.setSceneRect(0, 0, total_width, total_height)
SceneRect(rds, old_rect) ==
    IF Len(rds) > 0
    THEN <<0, 0,
           Max({rds[i].x + RoadWidth : i \in 1..Len(rds)}) + 200,
           Max({rds[i].y + RoadHeight : i \in 1..Len(rds)}) + 100>>
    ELSE old_rect

\* redraw_scene() run on the state the handler leaves
RedrawScene ==
    /\ scene_items' = SceneItems(roads', cameras', vehicles', text_labels',
                                 show_trajectory', is_playing', current_time')
    /\ scene_rect' = SceneRect(roads', scene_rect)

\* ------------------------------------------------------------------------
\* The editor after construction (assets present: one road is added)
\* ------------------------------------------------------------------------
Road(road_id, x, y) == [id |-> road_id, x |-> x, y |-> y, locked |-> FALSE]

Vehicle(vehicle_id) == [id |-> vehicle_id, trajectory |-> <<>>]

Camera(camera_id, x, y) == [id |-> camera_id, x |-> x, y |-> y]

TextLabel(text, x, y) ==
    [text |-> text, x |-> x, y |-> y, font_size |-> 16, color |-> "white"]

InitEditor ==
    /\ roads = <<Road(0, LeftMargin, TopMargin)>>
    /\ vehicles = <<>>
    /\ cameras = <<>>
    /\ text_labels = <<>>
    /\ next_vehicle_id = 0
    /\ next_camera_id = 0
    /\ next_road_id = 1
    /\ current_time = 0
    /\ max_time = InitialMaxTime
    /\ is_playing = FALSE
    /\ show_trajectory = TRUE
    /\ slider_value = 0
    /\ selected_vehicle = None
    /\ btn_edit_trajectory = FALSE
    /\ selecting_trajectory = FALSE
    /\ current_vehicle = None
    /\ scene_items = SceneItems(<<Road(0, LeftMargin, TopMargin)>>, <<>>,
                                <<>>, <<>>, TRUE, FALSE, 0)
    /\ scene_rect = SceneRect(<<Road(0, LeftMargin, TopMargin)>>, <<>>)
    /\ exported = NoVideo
    /\ selected_road = None
    /\ btn_lock_road = FALSE
    /\ left_margin = LeftMargin
    /\ top_margin = TopMargin
    /\ notice = Info
    /\ camera_row = None
    /\ vehicles_v3 = <<>>
    /\ selected_vehicle_v3 = None
    /\ removed_ids_v3 = {}
    /\ store_wa = [vehicles |-> <<>>, cameras |-> <<>>, text_labels |-> <<>>,
                   max_time |-> InitialMaxTime]
    /\ document = NoDocument

InitInterp ==
    /\ trajectory \in TrajectoryInputs
    /\ t \in QueryTimes
    /\ position = NoCall
    /\ position_v3 = NoCall
    /\ position_wa = NoCall
    /\ InitEditor

CallGetPositionAtTime ==
    /\ position = NoCall
    /\ position' = GetPositionAtTime(trajectory, t)
    /\ UNCHANGED <<trajectory, t, position_v3, position_wa, editorVars>>

CallGetPositionAtTimeV3 ==
    /\ position_v3 = NoCall
    /\ position_v3' = GetPositionAtTimeV3(trajectory, t)
    /\ UNCHANGED <<trajectory, t, position, position_wa, editorVars>>

NextInterp == CallGetPositionAtTime \/ CallGetPositionAtTimeV3

\* the same query put to vehicle_editor_with_assets.py's method
CallGetPositionAtTimeWA ==
    /\ position_wa = NoCall
    /\ position_wa' = GetPositionAtTimeWA(trajectory, t)
    /\ UNCHANGED <<trajectory, t, position, position_v3, editorVars>>

NextCompare ==
    CallGetPositionAtTime \/ CallGetPositionAtTimeV3 \/ CallGetPositionAtTimeWA

SpecCompare == InitInterp /\ [][NextCompare]_vars

SpecInterp == InitInterp /\ [][NextInterp]_vars

\* ------------------------------------------------------------------------
\* The editor's handlers
\* ------------------------------------------------------------------------
Init ==
    /\ trajectory = <<>>
    /\ t = 0
    /\ position = NoCall
    /\ position_v3 = NoCall
    /\ position_wa = NoCall
    /\ InitEditor

\* an add that numbers the entity by the length of the list
AddVehicleNumberedByLength(limit) ==
    /\ Len(vehicles) < limit
    /\ next_vehicle_id < MaxIds
    /\ vehicles' = Append(vehicles, Vehicle(Len(vehicles)))
    /\ next_vehicle_id' = next_vehicle_id + 1
    /\ notice' = Info
    /\ UNCHANGED <<roads, cameras, text_labels, next_camera_id, next_road_id,
                   clockVars, editVars, exported, interpVars, roadVars,
                   camera_row, v3Vars, fileVars>>
    /\ RedrawScene

\* add_vehicle_to_scene, a vehicle asset being selected in the list, in a
\* scene that is let hold limit vehicles
AddVehicle(limit) ==
    /\ Len(vehicles) < limit
    /\ next_vehicle_id < MaxIds
    /\ vehicles' = Append(vehicles, Vehicle(next_vehicle_id))
    /\ next_vehicle_id' = next_vehicle_id + 1
    /\ UNCHANGED <<roads, cameras, text_labels, next_camera_id, next_road_id,
                   clockVars, editVars, exported, interpVars,
                   roadVars, v3Vars, fileVars, camera_row>>
    /\ RedrawScene
    /\ notice' = Info

AddVehicleToScene == AddVehicle(MaxVehicles)

\* the same handler where the claim is about several vehicles
AddVehicleToSceneAgain == AddVehicle(MaxVehicles + 1)

\* add_camera_to_scene
AddCameraToScene ==
    /\ Len(cameras) < MaxCameras
    /\ next_camera_id < MaxIds
    /\ cameras' = Append(cameras,
                         Camera(next_camera_id, 200 + next_camera_id * 50, 100))
    /\ next_camera_id' = next_camera_id + 1
    /\ UNCHANGED <<roads, vehicles, text_labels, next_vehicle_id,
                   next_road_id, clockVars, editVars, exported, interpVars,
                   roadVars, v3Vars, fileVars>>
    /\ RedrawScene
    /\ notice' = Info
    /\ camera_row' = None

\* add_text_label, the input dialog accepted with a non-empty text
AddTextLabel ==
    /\ Len(text_labels) < MaxLabels
    /\ \E text \in LabelTexts :
          text_labels' = Append(text_labels,
                                TextLabel(text, 200, 50 + Len(text_labels) * 30))
    /\ UNCHANGED <<roads, vehicles, cameras, next_vehicle_id, next_camera_id,
                   next_road_id, clockVars, editVars, exported, interpVars,
                   roadVars, v3Vars, fileVars, camera_row>>
    /\ RedrawScene
    /\ notice' = Info

\* on_vehicle_selected: a click on row idx of the vehicle list
OnVehicleSelected ==
    /\ \E idx \in 1..Len(vehicles) :
          /\ selected_vehicle # vehicles[idx].id
          /\ selected_vehicle' = vehicles[idx].id
    /\ UNCHANGED <<storeVars, clockVars, btn_edit_trajectory,
                   selecting_trajectory, current_vehicle, sceneVars, exported,
                   interpVars,
                   roadVars, v3Vars, fileVars, camera_row>>
    /\ notice' = Info

\* toggle_trajectory_edit: the click flips the checkable button, then the
\* handler reads it
ToggleTrajectoryEdit ==
    /\ IF selected_vehicle = None
       THEN /\ btn_edit_trajectory
            /\ btn_edit_trajectory' = FALSE
            /\ UNCHANGED <<selecting_trajectory, current_vehicle>>
       ELSE /\ btn_edit_trajectory' = ~btn_edit_trajectory
            /\ IF btn_edit_trajectory'
               THEN /\ selecting_trajectory' = TRUE
                    /\ current_vehicle' = selected_vehicle
               ELSE /\ selecting_trajectory' = FALSE
                    /\ current_vehicle' = None
    /\ UNCHANGED <<storeVars, clockVars, selected_vehicle, sceneVars,
                   exported, interpVars,
                   roadVars, v3Vars, fileVars, camera_row>>
    /\ notice' = IF selected_vehicle = None THEN notice ELSE Info

\* Vehicle.add_trajectory_point
AddTrajectoryPoint(vehicle, x, y, time, pause_duration) ==
    [vehicle EXCEPT !.trajectory =
        Append(@, TrajectoryPoint(x, y, time, pause_duration))]

\* a vehicle's trajectory and an arrival time, before add_trajectory_point
InitAddPoint ==
    /\ trajectory \in UNION {TrajectoriesOfLen(k) : k \in 0..MaxWaypoints}
    /\ t \in PointTimes
    /\ position = NoCall
    /\ position_v3 = NoCall
    /\ position_wa = NoCall
    /\ InitEditor

\* vehicle.add_trajectory_point(x, y, t, pause) on a vehicle with trajectory
CallAddTrajectoryPoint ==
    /\ Len(trajectory) <= MaxWaypoints
    /\ \E p \in ClickPoints, pause \in PointPauses :
          trajectory' =
              AddTrajectoryPoint([id |-> 0, trajectory |-> trajectory],
                                 p[1], p[2], t, pause).trajectory
    /\ UNCHANGED <<t, position, position_v3, position_wa, editorVars>>

NextAddPoint == CallAddTrajectoryPoint

SpecAddPoint == InitAddPoint /\ [][NextAddPoint]_vars

\* EditorScene.mousePressEvent in trajectory-edit mode, the dialog accepted
MousePressEvent ==
    /\ selecting_trajectory
    /\ current_vehicle # None
    /\ \E idx \in 1..Len(vehicles), p \in ClickPoints, time \in EditTimes,
          pause \in EditPauses :
          /\ vehicles[idx].id = current_vehicle
          /\ Len(vehicles[idx].trajectory) < MaxWaypoints
          /\ vehicles' = [vehicles EXCEPT ![idx] =
                AddTrajectoryPoint(@, p[1], p[2], time, pause)]
    /\ UNCHANGED <<roads, cameras, text_labels, next_vehicle_id,
                   next_camera_id, next_road_id, clockVars, editVars,
                   exported, interpVars,
                   roadVars, v3Vars, fileVars, camera_row>>
    /\ RedrawScene
    /\ notice' = Info

Min(S) == CHOOSE m \in S : \A n \in S : m <= n

\* the index in a list of the entity with an id
IndexOf(list, id) == CHOOSE i \in 1..Len(list) : list[i].id = id

\* list.remove(entity), del list[idx]
RemoveAt(list, idx) ==
    [i \in 1..(Len(list) - 1) |-> IF i < idx THEN list[i] ELSE list[i + 1]]

\* DraggablePixmapItem.mouseReleaseEvent of a vehicle's item dropped with its
\* centre at p: the first waypoint is made or moved; the scene is not redrawn
DragVehicle ==
    /\ \E k \in 1..Len(scene_items), p \in VehicleDrops :
          /\ scene_items[k].kind = "vehicle"
          /\ scene_items[k].draggable
          /\ \E idx \in 1..Len(vehicles) :
                /\ vehicles[idx].id = scene_items[k].id
                /\ IF Len(vehicles[idx].trajectory) = 0
                   THEN /\ vehicles' = [vehicles EXCEPT ![idx].trajectory =
                              <<TrajectoryPoint(p[1], p[2], 0, 0)>>]
                        /\ notice' = Info
                   ELSE IF Len(vehicles[idx].trajectory) = 1
                   THEN /\ vehicles' = [vehicles EXCEPT
                              ![idx].trajectory[1].x = p[1],
                              ![idx].trajectory[1].y = p[2]]
                        /\ notice' = Info
                   ELSE UNCHANGED <<vehicles, notice>>
          /\ scene_items' = [scene_items EXCEPT ![k].pos =
                                [x |-> Whole(p[1]), y |-> Whole(p[2])]]
    /\ UNCHANGED <<roads, cameras, text_labels, next_vehicle_id,
                   next_camera_id, next_road_id, clockVars, editVars,
                   scene_rect, exported, interpVars, roadVars, camera_row,
                   v3Vars, fileVars>>

\* clear_trajectory, a vehicle selected: its first waypoint is kept
ClearTrajectory ==
    /\ selected_vehicle # None
    /\ LET idx == IndexOf(vehicles, selected_vehicle)
       IN  vehicles' = [vehicles EXCEPT ![idx].trajectory =
                           IF Len(@) > 0 THEN <<@[1]>> ELSE @]
    /\ notice' = Info
    /\ UNCHANGED <<roads, cameras, text_labels, next_vehicle_id,
                   next_camera_id, next_road_id, clockVars, editVars,
                   exported, interpVars, roadVars, camera_row, v3Vars, fileVars>>
    /\ RedrawScene

\* ------------------------------------------------------------------------
\* Roads
\* ------------------------------------------------------------------------
\* fit_view_to_roads: the roads' bounding box and a margin of 100 around it
FitRect(rds, old_rect) ==
    IF Len(rds) = 0 THEN old_rect
    ELSE LET min_x == Min({rds[i].x : i \in 1..Len(rds)})
             min_y == Min({rds[i].y : i \in 1..Len(rds)})
             max_x == Max({rds[i].x + RoadWidth : i \in 1..Len(rds)})
             max_y == Max({rds[i].y + RoadHeight : i \in 1..Len(rds)})
         IN  <<min_x - 100, min_y - 100, max_x - min_x + 100 * 2,
               max_y - min_y + 100 * 2>>

\* add_road_interactive: add_road below the last road, then fit_view_to_roads
AddRoadInteractive ==
    /\ Len(roads) < MaxRoads
    /\ next_road_id < MaxIds
    /\ roads' = Append(roads,
          Road(next_road_id, left_margin,
               IF Len(roads) = 0 THEN top_margin
               ELSE roads[Len(roads)].y + RoadHeight))
    /\ next_road_id' = next_road_id + 1
    /\ notice' = Info
    /\ scene_items' = SceneItems(roads', cameras, vehicles, text_labels,
                                 show_trajectory, is_playing, current_time)
    /\ scene_rect' = FitRect(roads', SceneRect(roads', scene_rect))
    /\ UNCHANGED <<vehicles, cameras, text_labels, next_vehicle_id,
                   next_camera_id, clockVars, editVars, exported, interpVars,
                   roadVars, camera_row, v3Vars, fileVars>>

\* on_road_selected: a click on row idx of the road list
OnRoadSelected ==
    /\ \E idx \in 1..Len(roads) :
          /\ selected_road' = roads[idx].id
          /\ btn_lock_road' = roads[idx].locked
    /\ notice' = Info
    /\ UNCHANGED <<storeVars, clockVars, editVars, sceneVars, exported,
                   interpVars, left_margin, top_margin, camera_row, v3Vars, fileVars>>

\* toggle_lock_road: the click flips the checkable button, then the handler
\* reads it
ToggleLockRoad ==
    /\ IF selected_road = None
       THEN /\ btn_lock_road
            /\ btn_lock_road' = FALSE
            /\ UNCHANGED <<roads, notice>>
       ELSE /\ btn_lock_road' = ~btn_lock_road
            /\ roads' = [roads EXCEPT ![IndexOf(roads, selected_road)].locked =
                                          btn_lock_road']
            /\ notice' = Info
    /\ UNCHANGED <<vehicles, cameras, text_labels, next_vehicle_id,
                   next_camera_id, next_road_id, clockVars, editVars,
                   sceneVars, exported, interpVars, selected_road,
                   left_margin, top_margin, camera_row, v3Vars, fileVars>>

\* remove_road, a road selected and the question answered Yes
RemoveRoad ==
    /\ selected_road # None
    /\ LET idx == IndexOf(roads, selected_road)
       IN  IF roads[idx].locked
           THEN /\ notice' = RoadLockedWarning
                /\ UNCHANGED <<roads, selected_road, sceneVars>>
           ELSE /\ roads' = RemoveAt(roads, idx)
                /\ selected_road' = None
                /\ notice' = Info
                /\ scene_items' =
                      SceneItems(roads', cameras, vehicles, text_labels,
                                 show_trajectory, is_playing, current_time)
                /\ scene_rect' = FitRect(roads', SceneRect(roads', scene_rect))
    /\ UNCHANGED <<vehicles, cameras, text_labels, next_vehicle_id,
                   next_camera_id, next_road_id, clockVars, editVars,
                   exported, interpVars, btn_lock_road, left_margin,
                   top_margin, camera_row, v3Vars, fileVars>>

\* a release that moves the road whatever its lock says
DragRoadIgnoringLock ==
    /\ \E idx \in 1..Len(roads), pos \in RoadDrops :
          /\ idx <= Len(scene_items)
          /\ scene_items[idx].kind = "road"
          /\ roads' = [roads EXCEPT ![idx].x = pos[1], ![idx].y = pos[2]]
          /\ notice' = Info
          /\ scene_items' = [scene_items EXCEPT ![idx].x = roads'[idx].x,
                                                ![idx].y = roads'[idx].y]
    /\ UNCHANGED <<vehicles, cameras, text_labels, next_vehicle_id,
                   next_camera_id, next_road_id, clockVars, editVars,
                   scene_rect, exported, interpVars, roadVars, camera_row,
                   v3Vars, fileVars>>

\* DraggablePixmapItem.mouseReleaseEvent of a road's item dropped at pos;
\* the scene is not redrawn, the item is where it was dropped or put back
DragRoad ==
    /\ \E idx \in 1..Len(roads), pos \in RoadDrops :
          /\ idx <= Len(scene_items)
          /\ scene_items[idx].kind = "road"
          /\ IF ~roads[idx].locked
             THEN /\ roads' = [roads EXCEPT ![idx].x = pos[1],
                                            ![idx].y = pos[2]]
                  /\ notice' = Info
             ELSE /\ roads' = roads
                  /\ notice' = RoadLockedStatus
          /\ scene_items' = [scene_items EXCEPT ![idx].x = roads'[idx].x,
                                                ![idx].y = roads'[idx].y]
    /\ UNCHANGED <<vehicles, cameras, text_labels, next_vehicle_id,
                   next_camera_id, next_road_id, clockVars, editVars,
                   scene_rect, exported, interpVars, roadVars, camera_row,
                   v3Vars, fileVars>>

\* for point in vehicle.trajectory: point.x += dx, point.y += dy
ShiftTrajectory(traj, dx, dy) ==
    [i \in 1..Len(traj) |->
        [traj[i] EXCEPT !.x = @ + dx, !.y = @ + dy]]

\* the four loops of on_margin_changed and on_top_margin_changed
ShiftStore(dx, dy) ==
    /\ roads' = [i \in 1..Len(roads) |->
                    [roads[i] EXCEPT !.x = @ + dx, !.y = @ + dy]]
    /\ vehicles' = [i \in 1..Len(vehicles) |->
                       [vehicles[i] EXCEPT !.trajectory =
                           ShiftTrajectory(@, dx, dy)]]
    /\ cameras' = [i \in 1..Len(cameras) |->
                      [cameras[i] EXCEPT !.x = @ + dx, !.y = @ + dy]]
    /\ text_labels' = [i \in 1..Len(text_labels) |->
                          [text_labels[i] EXCEPT !.x = @ + dx, !.y = @ + dy]]

\* on_margin_changed: the left margin spin box set to another value
OnMarginChanged ==
    /\ \E value \in MarginValues :
          /\ value # left_margin
          /\ left_margin' = value
          /\ ShiftStore(value - left_margin, 0)
    /\ notice' = Info
    /\ UNCHANGED <<next_vehicle_id, next_camera_id, next_road_id, clockVars,
                   editVars, exported, interpVars, selected_road,
                   btn_lock_road, top_margin, camera_row, v3Vars, fileVars>>
    /\ RedrawScene

\* on_top_margin_changed: the top margin spin box set to another value
OnTopMarginChanged ==
    /\ \E value \in TopMarginValues :
          /\ value # top_margin
          /\ top_margin' = value
          /\ ShiftStore(0, value - top_margin)
    /\ notice' = Info
    /\ UNCHANGED <<next_vehicle_id, next_camera_id, next_road_id, clockVars,
                   editVars, exported, interpVars, selected_road,
                   btn_lock_road, left_margin, camera_row, v3Vars, fileVars>>
    /\ RedrawScene

\* fit_view_to_roads, the button
FitViewToRoads ==
    /\ Len(roads) > 0
    /\ scene_rect' = FitRect(roads, scene_rect)
    /\ notice' = Info
    /\ UNCHANGED <<storeVars, clockVars, editVars, scene_items, exported,
                   interpVars, roadVars, camera_row, v3Vars, fileVars>>

\* remove_vehicle, a vehicle selected and the question answered Yes
RemoveVehicle ==
    /\ selected_vehicle # None
    /\ vehicles' = RemoveAt(vehicles, IndexOf(vehicles, selected_vehicle))
    /\ selected_vehicle' = None
    /\ notice' = Info
    /\ UNCHANGED <<roads, cameras, text_labels, next_vehicle_id,
                   next_camera_id, next_road_id, clockVars,
                   btn_edit_trajectory, selecting_trajectory, current_vehicle,
                   exported, interpVars, roadVars, camera_row, v3Vars, fileVars>>
    /\ RedrawScene

\* EditorScene.mousePressEvent in trajectory-edit mode, the dialog accepted,
\* scene.current_vehicle a vehicle that remove_vehicle took out of the
\* store: the waypoint goes to that object, the store is as it was
MousePressEventOnRemoved ==
    /\ selecting_trajectory
    /\ current_vehicle # None
    /\ \A idx \in 1..Len(vehicles) : vehicles[idx].id # current_vehicle
    /\ UNCHANGED <<storeVars, clockVars, editVars, exported, interpVars,
                   roadVars, v3Vars, fileVars, camera_row>>
    /\ RedrawScene
    /\ notice' = Info

\* on_camera_selected: a click on row idx of the camera list
OnCameraSelected ==
    /\ \E idx \in 1..Len(cameras) : camera_row' = idx
    /\ notice' = Info
    /\ UNCHANGED <<storeVars, clockVars, editVars, sceneVars, exported,
                   interpVars, roadVars, v3Vars, fileVars>>

\* remove_camera, a row of the camera list current and the question
\* answered Yes; update_camera_list refills the list, no row is current
RemoveCamera ==
    /\ camera_row # None
    /\ cameras' = RemoveAt(cameras, camera_row)
    /\ camera_row' = None
    /\ notice' = Info
    /\ UNCHANGED <<roads, vehicles, text_labels, next_vehicle_id,
                   next_camera_id, next_road_id, clockVars, editVars,
                   exported, interpVars, roadVars, v3Vars, fileVars>>
    /\ RedrawScene

\* ------------------------------------------------------------------------
\* vehicle_editor_v3.py: the vehicles of the scene
\* ------------------------------------------------------------------------
\* Vehicle(vehicle_id, pixmap, x, y, name): x and y are not kept
VehicleV3(vehicle_id, name) == [id |-> vehicle_id, name |-> name]

\* add_vehicle_to_scene of v3: vehicle_id = len(self.vehicles)
AddVehicleToSceneV3 ==
    /\ Len(vehicles_v3) < MaxVehiclesV3
    /\ \E vehicle_name \in VehicleAssets :
          vehicles_v3' = Append(vehicles_v3,
                                VehicleV3(Len(vehicles_v3), vehicle_name))
    /\ UNCHANGED <<selected_vehicle_v3, removed_ids_v3, interpVars, storeVars,
                   clockVars, editVars, sceneVars, exported, roadVars, notice,
                   camera_row, fileVars>>

\* on_vehicle_selected of v3: a click on row idx of the vehicle list
OnVehicleSelectedV3 ==
    /\ \E idx \in 1..Len(vehicles_v3) :
          /\ selected_vehicle_v3 # idx
          /\ selected_vehicle_v3' = idx
    /\ UNCHANGED <<vehicles_v3, removed_ids_v3, interpVars, storeVars,
                   clockVars, editVars, sceneVars, exported, roadVars, notice,
                   camera_row, fileVars>>

\* remove_vehicle of v3, a vehicle selected and the question answered Yes
RemoveVehicleV3 ==
    /\ selected_vehicle_v3 # None
    /\ vehicles_v3' = RemoveAt(vehicles_v3, selected_vehicle_v3)
    /\ removed_ids_v3' =
          removed_ids_v3 \cup {vehicles_v3[selected_vehicle_v3].id}
    /\ selected_vehicle_v3' = None
    /\ UNCHANGED <<interpVars, storeVars, clockVars, editVars, sceneVars,
                   exported, roadVars, notice, camera_row, fileVars>>

NextV3 ==
    \/ AddVehicleToSceneV3
    \/ OnVehicleSelectedV3
    \/ RemoveVehicleV3

SpecV3 == Init /\ [][NextV3]_vars

\* ------------------------------------------------------------------------
\* Project files: save_project of vehicle_editor_fixed.py, and the store,
\* save_project and load_project of vehicle_editor_with_assets.py
\* ------------------------------------------------------------------------
\* save_project of vehicle_editor_fixed.py: the dictionary handed to
\* json.dump (name and scale, which the model does not follow, left out)
ProjectData ==
    [roads |-> [i \in 1..Len(roads) |->
                   [id |-> roads[i].id, x |-> roads[i].x, y |-> roads[i].y,
                    locked |-> roads[i].locked]],
     vehicles |-> [i \in 1..Len(vehicles) |->
                   [id |-> vehicles[i].id,
                    trajectory |->
                        [k \in 1..Len(vehicles[i].trajectory) |->
                            [x |-> vehicles[i].trajectory[k].x,
                             y |-> vehicles[i].trajectory[k].y,
                             time |-> vehicles[i].trajectory[k].time,
                             pause |->
                                vehicles[i].trajectory[k].pause_duration]]]],
     cameras |-> [i \in 1..Len(cameras) |->
                   [id |-> cameras[i].id, x |-> cameras[i].x,
                    y |-> cameras[i].y]],
     text_labels |-> [i \in 1..Len(text_labels) |->
                   [text |-> text_labels[i].text, x |-> text_labels[i].x,
                    y |-> text_labels[i].y,
                    font_size |-> text_labels[i].font_size,
                    color |-> text_labels[i].color]]]

\* save_project of vehicle_editor_fixed.py, a file name chosen
SaveProject ==
    /\ document' = ProjectData
    /\ notice' = Info
    /\ UNCHANGED <<interpVars, storeVars, clockVars, editVars, sceneVars,
                   exported, roadVars, camera_row, v3Vars, store_wa>>

\* Vehicle(len(self.vehicles), pixmap, 100, 100 + len(self.vehicles) * 50)
\* of vehicle_editor_with_assets.py: the trajectory starts with one point
VehicleWA(vehicle_id, x, y) ==
    [id |-> vehicle_id, trajectory |-> <<[x |-> x, y |-> y, time |-> 0]>>]

\* add_vehicle_to_scene of vehicle_editor_with_assets.py
AddVehicleToSceneWA ==
    /\ Len(store_wa.vehicles) <= MaxVehicles
    /\ store_wa' = [store_wa EXCEPT !.vehicles =
          Append(@, VehicleWA(Len(@), 100, 100 + Len(@) * 50))]
    /\ UNCHANGED <<interpVars, storeVars, clockVars, editVars, sceneVars,
                   exported, roadVars, notice, camera_row, v3Vars, document>>

\* add_camera_to_scene of vehicle_editor_with_assets.py
AddCameraToSceneWA ==
    /\ Len(store_wa.cameras) < MaxCameras
    /\ store_wa' = [store_wa EXCEPT !.cameras =
          Append(@, Camera(Len(@), 200, 100 + Len(@) * 50))]
    /\ UNCHANGED <<interpVars, storeVars, clockVars, editVars, sceneVars,
                   exported, roadVars, notice, camera_row, v3Vars, document>>

\* add_text_label of vehicle_editor_with_assets.py, the dialog accepted
\* with its default place and size
AddTextLabelWA ==
    /\ Len(store_wa.text_labels) < MaxLabels
    /\ \E text \in LabelTexts :
          store_wa' = [store_wa EXCEPT !.text_labels =
              Append(@, TextLabel(text, 300, 300))]
    /\ UNCHANGED <<interpVars, storeVars, clockVars, editVars, sceneVars,
                   exported, roadVars, notice, camera_row, v3Vars, document>>

\* max_time_changed of vehicle_editor_with_assets.py
MaxTimeChangedWA ==
    /\ \E value \in MaxTimeValues :
          /\ value # store_wa.max_time
          /\ store_wa' = [store_wa EXCEPT !.max_time = value]
    /\ UNCHANGED <<interpVars, storeVars, clockVars, editVars, sceneVars,
                   exported, roadVars, notice, camera_row, v3Vars, document>>

\* save_project of vehicle_editor_with_assets.py: the dictionary handed to
\* json.dump; a waypoint is written as the tuple (x, y, time)
ProjectDataWA(store) ==
    [vehicles |-> [i \in 1..Len(store.vehicles) |->
                   [id |-> store.vehicles[i].id, pixmap_index |-> 0,
                    trajectory |->
                        [k \in 1..Len(store.vehicles[i].trajectory) |->
                            <<store.vehicles[i].trajectory[k].x,
                              store.vehicles[i].trajectory[k].y,
                              store.vehicles[i].trajectory[k].time>>]]],
     cameras |-> [i \in 1..Len(store.cameras) |->
                   [id |-> store.cameras[i].id, pixmap_index |-> 0,
                    x |-> store.cameras[i].x, y |-> store.cameras[i].y]],
     text_labels |-> [i \in 1..Len(store.text_labels) |->
                   [text |-> store.text_labels[i].text,
                    x |-> store.text_labels[i].x,
                    y |-> store.text_labels[i].y,
                    font_size |-> store.text_labels[i].font_size,
                    color |-> store.text_labels[i].color]],
     max_time |-> store.max_time]

\* save_project of vehicle_editor_with_assets.py, a file name chosen
SaveProjectWA ==
    /\ document' = ProjectDataWA(store_wa)
    /\ UNCHANGED <<interpVars, storeVars, clockVars, editVars, sceneVars,
                   exported, roadVars, notice, camera_row, v3Vars, store_wa>>

\* the store load_project of vehicle_editor_with_assets.py leaves: the three
\* lists cleared, max_time = data.get('max_time', 10.0); the entities of the
\* file are not read
LoadedStore(data) ==
    [vehicles |-> <<>>, cameras |-> <<>>, text_labels |-> <<>>,
     max_time |-> IF "max_time" \in DOMAIN data THEN data.max_time
                  ELSE InitialMaxTime]

\* load_project of vehicle_editor_with_assets.py, a written file chosen
LoadProjectWA ==
    /\ document # NoDocument
    /\ store_wa' = LoadedStore(document)
    /\ UNCHANGED <<interpVars, storeVars, clockVars, editVars, sceneVars,
                   exported, roadVars, notice, camera_row, v3Vars, document>>

NextProject ==
    \/ AddCameraToScene
    \/ AddTextLabel
    \/ SaveProject
    \/ AddVehicleToSceneWA
    \/ AddCameraToSceneWA
    \/ AddTextLabelWA
    \/ MaxTimeChangedWA
    \/ SaveProjectWA
    \/ LoadProjectWA

SpecProject == Init /\ [][NextProject]_vars

\* toggle_play
TogglePlay ==
    /\ is_playing' = ~is_playing
    /\ show_trajectory' = is_playing
    /\ UNCHANGED <<storeVars, current_time, max_time, slider_value,
                   editVars, exported, interpVars,
                   roadVars, v3Vars, fileVars, camera_row, notice>>
    /\ RedrawScene

\* max_t of update_animation: the largest last-waypoint time, 0 if none
MaxT(vs) ==
    Max({0} \cup {vs[i].trajectory[Len(vs[i].trajectory)].time :
                    i \in {j \in 1..Len(vs) : Len(vs[j].trajectory) > 0}})

\* int((self.current_time / max(self.max_time, 1)) * 1000)
SliderOf(now, max_t) ==
    (now * SliderMax) \div (IF max_t > Second THEN max_t ELSE Second)

\* a tick that tests the wrap against max_time as it was before the tick
UpdateAnimationWrapsOnOldMaxTime ==
    /\ is_playing
    /\ max_time' = IF MaxT(vehicles) > 0 THEN MaxT(vehicles) ELSE max_time
    /\ current_time' = IF current_time + TickStep > max_time
                       THEN 0 ELSE current_time + TickStep
    /\ current_time' <= MaxTicks * TickStep
    /\ slider_value' = SliderOf(current_time', max_time')
    /\ UNCHANGED <<storeVars, is_playing, show_trajectory, editVars,
                   exported, interpVars,
                   roadVars, v3Vars, fileVars, camera_row, notice>>
    /\ RedrawScene

\* a tick that stops at max_time where the code goes back to 0
UpdateAnimationClamps ==
    /\ is_playing
    /\ max_time' = IF MaxT(vehicles) > 0 THEN MaxT(vehicles) ELSE max_time
    /\ current_time' = IF current_time + TickStep > max_time'
                       THEN max_time' ELSE current_time + TickStep
    /\ current_time' <= MaxTicks * TickStep
    /\ slider_value' = SliderOf(current_time', max_time')
    /\ UNCHANGED <<storeVars, is_playing, show_trajectory, editVars,
                   exported, interpVars,
                   roadVars, v3Vars, fileVars, camera_row, notice>>
    /\ RedrawScene

\* update_animation: the timer's timeout, the timer running; the model
\* follows the clock up to MaxTicks ticks from 0 (and every wrap to 0)
UpdateAnimation ==
    /\ is_playing
    /\ max_time' = IF MaxT(vehicles) > 0 THEN MaxT(vehicles) ELSE max_time
    /\ current_time' = IF current_time + TickStep > max_time'
                       THEN 0 ELSE current_time + TickStep
    /\ current_time' <= MaxTicks * TickStep
    /\ slider_value' = SliderOf(current_time', max_time')
    /\ UNCHANGED <<storeVars, is_playing, show_trajectory, editVars,
                   exported, interpVars,
                   roadVars, v3Vars, fileVars, camera_row, notice>>
    /\ RedrawScene

\* on_time_slider_changed: the user moves the slider to another value,
\* one of values
OnTimeSliderChangedTo(values) ==
    /\ \E value \in values :
          /\ value # slider_value
          /\ slider_value' = value
          /\ current_time' = (value * max_time) \div SliderMax
    /\ UNCHANGED <<storeVars, max_time, is_playing, show_trajectory,
                   editVars, exported, interpVars,
                   roadVars, v3Vars, fileVars, camera_row, notice>>
    /\ IF ~is_playing THEN RedrawScene ELSE UNCHANGED sceneVars

OnTimeSliderChanged == OnTimeSliderChangedTo(SliderValues)

\* the same handler, the slider let go one tick before the end of a
\* scenario of 0.1 s
OnTimeSliderChangedNearEnd == OnTimeSliderChangedTo(NearEndSliderValues)

\* ------------------------------------------------------------------------
\* export_video
\* ------------------------------------------------------------------------
\* duration * fps is a product of doubles.  max_time is 10.0 or an arrival
\* time of the dialog (one decimal, 0.0 to 60.0); for these durations, in
\* tenths of a second, the product is the double just below the integer
\* 30 * duration (4.1 * 30 is 122.99999999999999), for every other one it
\* is that integer
ProductBelowInteger == {41, 82, 164, 169, 323, 328, 333, 338}

\* total_frames = int(duration * fps)
TotalFrames(duration) ==
    IF /\ duration % DialogStep = 0
       /\ (duration \div DialogStep) \in ProductBelowInteger
    THEN (duration * Fps) \div Second - 1
    ELSE (duration * Fps) \div Second

\* self.current_time = frame_idx / fps
FrameTime(frame_idx) == (frame_idx * Second) \div Fps

\* a slip: self.show_trajectory = False left out before the loop
RenderFramesWithOverlay(total_frames) ==
    [i \in 1..total_frames |->
        [current_time |-> FrameTime(i - 1),
         show_trajectory |-> show_trajectory]]

\* for frame_idx in range(total_frames): set the time, redraw with the
\* overlay flag off, render and out.write; a frame records the time and
\* the overlay flag it was composed with
RenderFrames(total_frames) ==
    [i \in 1..total_frames |->
        [current_time |-> FrameTime(i - 1), show_trajectory |-> FALSE]]

\* the draw list redraw_scene composes for a frame of the loop
FrameDrawList(frame) ==
    SceneItems(roads, cameras, vehicles, text_labels, frame.show_trajectory,
               is_playing, frame.current_time)

\* a slip: the overlay flag left off and the clock left on the last frame
AfterExportNotRestored(original_show_trajectory) ==
    [show_trajectory |-> FALSE, current_time |-> FrameTime(1)]

\* self.show_trajectory = original_show_trajectory; self.current_time = 0
AfterExport(original_show_trajectory) ==
    [show_trajectory |-> original_show_trajectory, current_time |-> 0]

\* export_video, a file name chosen: from fps = 30 to the last redraw_scene
ExportVideo ==
    /\ LET duration == max_time
           after == AfterExport(show_trajectory)
       IN  /\ exported' = [fps |-> Fps, width |-> scene_rect[3],
                           height |-> scene_rect[4],
                           frames |-> RenderFrames(TotalFrames(duration))]
           /\ show_trajectory' = after.show_trajectory
           /\ current_time' = after.current_time
    /\ UNCHANGED <<storeVars, max_time, is_playing, slider_value,
                   editVars, interpVars,
                   roadVars, v3Vars, fileVars, camera_row>>
    /\ RedrawScene
    /\ notice' = Info

\* the frames at which a step of the loop is let fail
FailingFrames == {0, 1}

\* export_video when a step of the frame loop raises at frame frame_idx
\* (scene.render, the conversion of the image, out.write): the time is
\* set and the scene redrawn for that frame, the frames before it are in
\* the file, and the exception leaves the handler, which has no try
ExportVideoRaises ==
    /\ \E frame_idx \in FailingFrames :
          /\ frame_idx < TotalFrames(max_time)
          /\ exported' = [fps |-> Fps, width |-> scene_rect[3],
                          height |-> scene_rect[4],
                          frames |-> RenderFrames(frame_idx)]
          /\ current_time' = FrameTime(frame_idx)
    /\ show_trajectory' = FALSE
    /\ UNCHANGED <<storeVars, max_time, is_playing, slider_value,
                   editVars, interpVars, roadVars, notice, camera_row,
                   v3Vars, fileVars>>
    /\ RedrawScene

Next ==
    \/ AddVehicleToScene
    \/ AddCameraToScene
    \/ AddTextLabel
    \/ OnVehicleSelected
    \/ ToggleTrajectoryEdit
    \/ MousePressEvent
    \/ TogglePlay
    \/ UpdateAnimation
    \/ OnTimeSliderChanged
    \/ ExportVideo

Spec == Init /\ [][Next]_vars

\* the clock: play, ticks, scrubs and the edits that move max_time
NextClock ==
    \/ AddVehicleToScene
    \/ OnVehicleSelected
    \/ ToggleTrajectoryEdit
    \/ MousePressEvent
    \/ TogglePlay
    \/ UpdateAnimation
    \/ OnTimeSliderChangedNearEnd

SpecClock == Init /\ [][NextClock]_vars

\* the handlers that set, use and should drop the trajectory-edit target
NextTarget ==
    \/ AddVehicleToScene
    \/ OnVehicleSelected
    \/ ToggleTrajectoryEdit
    \/ MousePressEvent
    \/ RemoveVehicle
    \/ MousePressEventOnRemoved

SpecTarget == Init /\ [][NextTarget]_vars

\* what decides the duration of an export: the waypoints, the removal of a
\* vehicle, play and stop, the timer, and the export itself
NextDuration ==
    \/ AddVehicleToScene
    \/ OnVehicleSelected
    \/ ToggleTrajectoryEdit
    \/ MousePressEvent
    \/ RemoveVehicle
    \/ TogglePlay
    \/ UpdateAnimation
    \/ ExportVideo

SpecDuration == Init /\ [][NextDuration]_vars

\* the clock and the export, a failing export included
NextExport ==
    \/ AddVehicleToScene
    \/ AddCameraToScene
    \/ AddTextLabel
    \/ TogglePlay
    \/ UpdateAnimation
    \/ OnTimeSliderChanged
    \/ ExportVideo
    \/ ExportVideoRaises

SpecExport == Init /\ [][NextExport]_vars

\* the handlers that decide whether the trajectory overlay is drawn: the
\* waypoints of a vehicle, play and stop, the timer and the export
NextOverlay ==
    \/ AddVehicleToScene
    \/ OnVehicleSelected
    \/ ToggleTrajectoryEdit
    \/ MousePressEvent
    \/ TogglePlay
    \/ UpdateAnimation
    \/ ExportVideo

SpecOverlay == Init /\ [][NextOverlay]_vars

\* the handlers that fill the scene, with one more vehicle, the clock
\* stopped
NextScene ==
    \/ AddVehicleToSceneAgain
    \/ AddCameraToScene
    \/ AddTextLabel
    \/ OnVehicleSelected
    \/ ToggleTrajectoryEdit
    \/ MousePressEvent

SpecScene == Init /\ [][NextScene]_vars

\* the handlers of the roads and the margins, a camera beside the roads
NextRoads ==
    \/ AddRoadInteractive
    \/ OnRoadSelected
    \/ ToggleLockRoad
    \/ RemoveRoad
    \/ DragRoad
    \/ OnMarginChanged
    \/ OnTopMarginChanged
    \/ FitViewToRoads
    \/ AddCameraToScene

SpecRoads == Init /\ [][NextRoads]_vars

\* the handlers that make, move and drop waypoints
NextWaypoints ==
    \/ AddVehicleToScene
    \/ OnVehicleSelected
    \/ ToggleTrajectoryEdit
    \/ MousePressEvent
    \/ DragVehicle
    \/ ClearTrajectory

SpecWaypoints == Init /\ [][NextWaypoints]_vars

\* the handlers that read or set a road's lock
NextLock ==
    \/ AddRoadInteractive
    \/ OnRoadSelected
    \/ ToggleLockRoad
    \/ RemoveRoad
    \/ DragRoad

SpecLock == Init /\ [][NextLock]_vars

\* adding and removing roads, vehicles and cameras
NextIds ==
    \/ AddRoadInteractive
    \/ OnRoadSelected
    \/ RemoveRoad
    \/ AddVehicleToSceneAgain
    \/ OnVehicleSelected
    \/ RemoveVehicle
    \/ AddCameraToScene
    \/ OnCameraSelected
    \/ RemoveCamera

SpecIds == Init /\ [][NextIds]_vars

\* ------------------------------------------------------------------------
\* Shapes of waypoint lists
\* ------------------------------------------------------------------------
Departure(point) == point.time + point.pause_duration

Called == position # NoCall

Sorted(traj) ==
    \A i \in 1..Len(traj) : \A j \in 1..Len(traj) :
        i < j => traj[i].time <= traj[j].time

\* no pause runs past the next waypoint's arrival
NoOverlap(traj) ==
    \A i \in 1..(Len(traj) - 1) : Departure(traj[i]) <= traj[i + 1].time

\* every travel segment has positive duration
PositiveTravel(traj) ==
    \A i \in 1..(Len(traj) - 1) : Departure(traj[i]) < traj[i + 1].time

\* P + (Q - P) * (t - s) / (Q.arrivalTime - s), s = P.arrivalTime + P.pauseDuration
RefLerp(P, Q, tt) ==
    LET s == Departure(P)
    IN  [x |-> Frac(P.x * (Q.time - s) + (Q.x - P.x) * (tt - s), Q.time - s),
         y |-> Frac(P.y * (Q.time - s) + (Q.y - P.y) * (tt - s), Q.time - s)]

\* the reference function of the design: half-open pause segments
\* [P.arrivalTime, departure) and travel segments [departure, Q.arrivalTime),
\* walked in waypoint order
RECURSIVE RefWalk(_, _, _)
RefWalk(traj, tt, i) ==
    IF i > Len(traj) THEN PointPos(traj[Len(traj)])
    ELSE IF traj[i].time <= tt /\ tt < Departure(traj[i])
         THEN PointPos(traj[i])
    ELSE IF i < Len(traj) /\ Departure(traj[i]) <= tt /\ tt < traj[i + 1].time
         THEN RefLerp(traj[i], traj[i + 1], tt)
    ELSE RefWalk(traj, tt, i + 1)

RefPositionAt(traj, tt) ==
    IF tt <= traj[1].time THEN PointPos(traj[1]) ELSE RefWalk(traj, tt, 1)

ScenarioCalled == Called /\ trajectory = ScenarioTrajectory

\* ------------------------------------------------------------------------
\* Claims about the interpolator (checked under SpecInterp)
\* ------------------------------------------------------------------------

\* C1: for every list of 2 or more waypoints sorted by arrival time and
\* every query time, get_position_at_time returns the value of the
\* reference function (half-open pause and travel segments, first waypoint
\* up to its arrival, last waypoint from its departure on).  Stated for the
\* lists in which no pause runs past the next arrival, where the segments
\* of the reference do not overlap.
C1_MatchesReference ==
    (Called /\ Len(trajectory) >= 2 /\ Sorted(trajectory)
        /\ NoOverlap(trajectory))
        => position = RefPositionAt(trajectory, t)

\* C2: for the scenario vehicle the position is (50,0) at t = 1.0, (100,0)
\* at t = 2.5 inside the pause, and (100,100) at t = 10.
C2_Scenario ==
    ScenarioCalled =>
        /\ t = Second => position = [x |-> Whole(50), y |-> Whole(0)]
        /\ t = 25 * DialogStep => position = [x |-> Whole(100), y |-> Whole(0)]
        /\ t = 10 * Second => position = [x |-> Whole(100), y |-> Whole(100)]

C2_Witness ==
    /\ ScenarioCalled
    /\ t = 25 * DialogStep
    /\ position = [x |-> Whole(100), y |-> Whole(0)]

\* C3 as stated: for the scenario vehicle the position at t = 3.0 is
\* (100,50).
C3_Original ==
    (ScenarioCalled /\ t = 3 * Second)
        => position = [x |-> Whole(100), y |-> Whole(50)]

\* C3 amended: for the scenario vehicle the position at t = 3.0, the end
\* of the pause and start of the travel segment, is (100,0); (100,50) is
\* the position at t = 3.5, half way through the travel segment.
C3_Amended ==
    ScenarioCalled =>
        /\ t = 3 * Second => position = [x |-> Whole(100), y |-> Whole(0)]
        /\ t = 35 * DialogStep => position = [x |-> Whole(100), y |-> Whole(50)]

C3_Witness ==
    /\ ScenarioCalled
    /\ t = 35 * DialogStep
    /\ position = [x |-> Whole(100), y |-> Whole(50)]

\* C4: clamp to end: for any list of 2 or more waypoints and any t at or
\* after the last waypoint's arrival plus pause, the position is the last
\* waypoint's, t equal to the last arrival at the instant the preceding
\* pause ends included.  Stated for the lists the design allows (sorted by
\* arrival time, no pause running past the next arrival) and for t after
\* the first arrival, where clamp to start does not apply.
C4_ClampToEnd ==
    (Called /\ Len(trajectory) >= 2 /\ Sorted(trajectory)
        /\ NoOverlap(trajectory)
        /\ t > trajectory[1].time
        /\ t >= Departure(trajectory[Len(trajectory)]))
        => position = PointPos(trajectory[Len(trajectory)])

\* C5: clamp to start: for any non-empty waypoint list and any t at or
\* before the first waypoint's arrival, the position is the first
\* waypoint's, whatever that arrival time and the order of the others.
C5_ClampToStart ==
    (Called /\ Len(trajectory) >= 1 /\ t <= trajectory[1].time)
        => position = PointPos(trajectory[1])

C5_Witness ==
    /\ Called
    /\ Len(trajectory) >= 2
    /\ trajectory[1].time > 0
    /\ trajectory[2].time < trajectory[1].time
    /\ 0 < t /\ t <= trajectory[1].time
    /\ position = PointPos(trajectory[1])
    /\ position # PointPos(trajectory[2])

\* t is the middle of the pause of waypoint i
MidPause(traj, tt, i) ==
    traj[i].pause_duration > 0 /\ 2 * tt = 2 * traj[i].time + traj[i].pause_duration

\* C6 as stated: pause holds: for any sorted waypoint list and any waypoint
\* P with a pause d > 0, overlapped by its predecessor's pause or not, the
\* position at P.arrivalTime + d/2 is P's.
C6_Original ==
    (Called /\ Sorted(trajectory)) =>
        \A i \in 1..Len(trajectory) :
            MidPause(trajectory, t, i) => position = PointPos(trajectory[i])

\* C6 amended: pause holds: for any sorted waypoint list and any waypoint P
\* with a pause d > 0 such that every earlier waypoint's pause has ended
\* before P.arrivalTime + d/2, the position at P.arrivalTime + d/2 is P's.
C6_PauseHolds ==
    (Called /\ Sorted(trajectory)) =>
        \A i \in 1..Len(trajectory) :
            (/\ MidPause(trajectory, t, i)
             /\ \A j \in 1..(i - 1) : Departure(trajectory[j]) < t)
                => position = PointPos(trajectory[i])

C6_Witness ==
    /\ Called
    /\ Len(trajectory) = 3
    /\ Sorted(trajectory)
    /\ MidPause(trajectory, t, 2)
    /\ Departure(trajectory[1]) < t
    /\ position = PointPos(trajectory[2])
    /\ position # PointPos(trajectory[1])
    /\ position # PointPos(trajectory[3])

\* C7: continuity at segment boundaries: for sorted waypoints whose travel
\* segments all have positive duration, the position on a closed pause
\* window [P.arrivalTime, departure] is P's and on a closed travel window
\* [departure, Q.arrivalTime] is the interpolation, so the two sides give
\* the same value, P's, at the departure and the same value, Q's, at
\* Q.arrivalTime.
C7_Continuity ==
    (Called /\ Len(trajectory) >= 2 /\ Sorted(trajectory)
        /\ PositiveTravel(trajectory)) =>
        /\ \A i \in 1..Len(trajectory) :
              (trajectory[i].time <= t /\ t <= Departure(trajectory[i]))
                  => position = PointPos(trajectory[i])
        /\ \A i \in 1..(Len(trajectory) - 1) :
              (Departure(trajectory[i]) <= t /\ t <= trajectory[i + 1].time)
                  => position = RefLerp(trajectory[i], trajectory[i + 1], t)

C7_Witness ==
    /\ Called
    /\ Len(trajectory) = 3
    /\ Sorted(trajectory)
    /\ PositiveTravel(trajectory)
    /\ trajectory[2].pause_duration > 0
    /\ t = Departure(trajectory[2])
    /\ position = PointPos(trajectory[2])
    /\ position # PointPos(trajectory[3])
    /\ position = RefLerp(trajectory[2], trajectory[3], t)

IsRational(q) == q \in Int \X (Nat \ {0})

IsPosition(v) ==
    /\ DOMAIN v = {"x", "y"}
    /\ IsRational(v.x)
    /\ IsRational(v.y)

\* C8: get_position_at_time of vehicle_editor_fixed.py and of
\* vehicle_editor_v3.py returns a defined (x, y), without a division by
\* zero or an index out of range, for every waypoint list and every t.
C8_NeverRaises ==
    /\ Called => IsPosition(position)
    /\ position_v3 # NoCall => IsPosition(position_v3)

C8_Witness ==
    /\ Called
    /\ position_v3 # NoCall
    /\ Len(trajectory) = 3
    /\ ~Sorted(trajectory)
    /\ trajectory[2].time = trajectory[3].time
    /\ t < 0
    /\ IsPosition(position)
    /\ IsPosition(position_v3)

IsOverlay(item) == item.kind \in {"line", "dot"}

NoOverlay(items) == \A i \in 1..Len(items) : ~IsOverlay(items[i])

\* C12: no draw list composed by redraw_scene while the clock is Playing,
\* and none composed for a frame of export_video, contains a trajectory
\* line or a waypoint dot: overlays are only in draw lists composed while
\* Stopped and outside an export.
C12_NoOverlayWhilePlayingOrExporting ==
    [][/\ is_playing' => NoOverlay(scene_items')
       /\ ExportVideo =>
             \A i \in 1..Len(exported'.frames) :
                 NoOverlay(FrameDrawList(exported'.frames[i]))]_vars

\* Playing with a vehicle of two waypoints in the store and the caller's
\* preference restored on stop: the same store draws its overlay
C12_Witness ==
    /\ is_playing
    /\ ~show_trajectory
    /\ Len(vehicles) > 0
    /\ Len(vehicles[1].trajectory) = 2
    /\ exported # NoVideo
    /\ NoOverlay(scene_items)
    /\ ~NoOverlay(SceneItems(roads, cameras, vehicles, text_labels, TRUE,
                             FALSE, current_time))

\* ------------------------------------------------------------------------
\* Claims about the order of the draw list (checked under SpecScene)
\* ------------------------------------------------------------------------
\* the layer of an item in the z-order of the design
Layer(item) ==
    CASE item.kind = "road" -> 1
      [] item.kind = "camera" -> 2
      [] IsOverlay(item) -> 3
      [] item.kind = "vehicle" -> 4
      [] item.kind = "text" -> 5

\* the ids of the items of a kind, in draw order
IdsOfKind(items, kind) ==
    LET sel == SelectSeq(items, LAMBDA item : item.kind = kind)
    IN  [i \in 1..Len(sel) |-> sel[i].id]

\* C13: in every draw list of redraw_scene all road items come before all
\* camera items, these before all trajectory-overlay items, these before
\* all vehicle sprites, and these before all labels; roads and cameras
\* are in store order.
C13_DrawOrder ==
    /\ \A i \in 1..Len(scene_items) : \A j \in 1..Len(scene_items) :
          i < j => Layer(scene_items[i]) <= Layer(scene_items[j])
    /\ IdsOfKind(scene_items, "road") = [i \in 1..Len(roads) |-> roads[i].id]
    /\ IdsOfKind(scene_items, "camera") =
          [i \in 1..Len(cameras) |-> cameras[i].id]

\* ------------------------------------------------------------------------
\* Claims about the roads (checked under SpecRoads)
\* ------------------------------------------------------------------------
\* the union of the roads' rectangles extended by margin on all four sides,
\* as <<x, y, width, height>>
BoundsOfRoads(rds, margin) ==
    LET left == Min({rds[i].x : i \in 1..Len(rds)})
        top == Min({rds[i].y : i \in 1..Len(rds)})
        right == Max({rds[i].x + RoadWidth : i \in 1..Len(rds)})
        bottom == Max({rds[i].y + RoadHeight : i \in 1..Len(rds)})
    IN  <<left - margin, top - margin, right - left + 2 * margin,
          bottom - top + 2 * margin>>

\* C14: in every state with at least one road, the scene rectangle is the
\* union of the roads' rectangles extended by 100 on all four sides
C14_SceneRectIsRoadBounds ==
    Len(roads) > 0 => scene_rect = BoundsOfRoads(roads, 100)

\* C17 is checked under SpecLock
RoadIds(rds) == {rds[i].id : i \in 1..Len(rds)}

SelectedRoad == roads[IndexOf(roads, selected_road)]

AtDrop(road) == \E pos \in RoadDrops : road.x = pos[1] /\ road.y = pos[2]

\* C17: a release on a locked road and remove_road on a locked selected road
\* leave every locked road where it was and the roads list as it was, and
\* show the locked status or the locked warning; on an unlocked road the
\* release puts the road at the drop position and remove_road takes the
\* road out of the list
C17_LockedRoadRefuses ==
    [][/\ DragRoad =>
            /\ RoadIds(roads') = RoadIds(roads)
            /\ \A i \in 1..Len(roads) : roads[i].locked => roads'[i] = roads[i]
            /\ (\A i \in 1..Len(roads) : roads[i].locked) =>
                   roads' = roads /\ notice' = RoadLockedStatus
            /\ (\A i \in 1..Len(roads) : ~roads[i].locked) =>
                   /\ \E i \in 1..Len(roads) : AtDrop(roads'[i])
                   /\ notice' = Info
       /\ RemoveRoad =>
            IF SelectedRoad.locked
            THEN roads' = roads /\ notice' = RoadLockedWarning
            ELSE /\ RoadIds(roads') = RoadIds(roads) \ {selected_road}
                 /\ Len(roads') = Len(roads) - 1]_vars

\* the removal of a locked road was refused while an unlocked road has been
\* dragged to the drop position
C17_Witness ==
    /\ notice = RoadLockedWarning
    /\ selected_road # None
    /\ SelectedRoad.locked
    /\ ~AtDrop(SelectedRoad)
    /\ \E i \in 1..Len(roads) : ~roads[i].locked /\ AtDrop(roads[i])

\* C18: no step changes the x or y of a road that is locked
C18_LockedRoadStays ==
    [][\A i \in 1..Len(roads) : \A j \in 1..Len(roads') :
          (roads[i].locked /\ roads'[j].id = roads[i].id) =>
              (roads'[j].x = roads[i].x /\ roads'[j].y = roads[i].y)]_vars

\* ------------------------------------------------------------------------
\* Claims about the ids (checked under SpecIds)
\* ------------------------------------------------------------------------
IdsOf(list) == {list[i].id : i \in 1..Len(list)}

DistinctIds(list) ==
    \A i \in 1..Len(list) : \A j \in 1..Len(list) :
        i # j => list[i].id # list[j].id

\* one step of a collection and its counter: the ids stay distinct, every id
\* in the collection is below the counter, the counter does not go down and
\* an id that enters the collection is at or above the counter before the
\* step, hence above every id given out before
IdsStep(old, new, old_next, new_next) ==
    /\ DistinctIds(new)
    /\ \A id \in IdsOf(old) : id < old_next
    /\ \A id \in IdsOf(new) : id < new_next
    /\ old_next <= new_next
    /\ \A id \in IdsOf(new) \ IdsOf(old) : id >= old_next

\* C15: through adds and removes of roads, vehicles and cameras the ids in
\* each collection are pairwise distinct and every id given by an add is
\* greater than every id given earlier in that collection
C15_IdsNeverReused ==
    [][/\ IdsStep(roads, roads', next_road_id, next_road_id')
       /\ IdsStep(vehicles, vehicles', next_vehicle_id, next_vehicle_id')
       /\ IdsStep(cameras, cameras', next_camera_id, next_camera_id')]_vars

\* in each collection an entity was removed and a later one added: the
\* first road and its successor are gone, as are vehicle 0 and camera 0
C15_Witness ==
    /\ Len(roads) = 2 /\ roads[1].id = 1 /\ roads[2].id = 2
    /\ Len(vehicles) = 2 /\ vehicles[1].id = 1 /\ vehicles[2].id = 2
    /\ Len(cameras) = 1 /\ cameras[1].id = 1

\* ------------------------------------------------------------------------
\* Claims about the ids of vehicle_editor_v3.py (checked under SpecV3)
\* ------------------------------------------------------------------------
\* C16: no two vehicles in the store of v3 have the same id, and the id of a
\* removed vehicle is not the id of a vehicle in the store
C16_IdsUniqueV3 ==
    /\ DistinctIds(vehicles_v3)
    /\ IdsOf(vehicles_v3) \cap removed_ids_v3 = {}

\* ------------------------------------------------------------------------
\* Claims about the waypoint lists (checked under SpecWaypoints)
\* ------------------------------------------------------------------------
\* C19: every vehicle's waypoint list is sorted by non-decreasing arrival time
C19_WaypointsSorted ==
    \A i \in 1..Len(vehicles) : Sorted(vehicles[i].trajectory)

\* ------------------------------------------------------------------------
\* Claims about add_trajectory_point (checked under SpecAddPoint)
\* ------------------------------------------------------------------------
NonNegative(traj) ==
    \A i \in 1..Len(traj) : traj[i].time >= 0 /\ traj[i].pause_duration >= 0

C11_FailureRestores ==
    [][ExportVideoRaises =>
        /\ current_time' = current_time
        /\ show_trajectory' = show_trajectory
        /\ roads' = roads
        /\ vehicles' = vehicles
        /\ cameras' = cameras
        /\ text_labels' = text_labels]_vars

\* ------------------------------------------------------------------------
\* Claims about the clock (checked under Spec)
\* ------------------------------------------------------------------------
\* the vehicles that are animated: those with 2 or more waypoints
Animated(vs) == {i \in 1..Len(vs) : Len(vs[i].trajectory) >= 2}

\* the largest arrival time plus pause over the waypoints of the animated
\* vehicles
LatestDeparture(vs) ==
    Max(UNION {{Departure(vs[i].trajectory[k]) :
                   k \in 1..Len(vs[i].trajectory)} : i \in Animated(vs)})

\* C21: after every tick max_time is at least 1.0 and, where a vehicle is
\* animated, it is the largest arrival time plus pause over the waypoints of
\* the animated vehicles, or 1.0 if that is less
C21_MaxTimeAfterTick ==
    [][UpdateAnimation =>
          /\ max_time' >= Second
          /\ Animated(vehicles) # {} =>
                max_time' = Max({Second, LatestDeparture(vehicles)})]_vars

\* ------------------------------------------------------------------------
\* Claims about the loop point (checked under SpecClock)
\* ------------------------------------------------------------------------
\* C22: a tick that carries current_time to or past max_time leaves
\* current_time at 0 and the clock Playing (the editor always loops)
C22_WrapAtMaxTime ==
    [][(UpdateAnimation /\ current_time + TickStep >= max_time') =>
          (current_time' = 0 /\ is_playing')]_vars

\* ------------------------------------------------------------------------
\* Claims about the clock within a play session (checked under Spec)
\* ------------------------------------------------------------------------
\* a step within one play session
InSession == is_playing /\ is_playing'

\* the tick that wraps current_time to 0
WrapTick == UpdateAnimation /\ current_time' = 0

\* C23 as stated: within a play session current_time never decreases from
\* one step to the next, whatever the step, except on the tick that wraps it
C23_Original ==
    [][InSession => (current_time' >= current_time \/ WrapTick)]_vars

\* C23 as amended: within a play session current_time never decreases from
\* one step to the next, except on the tick that wraps it, on a slider scrub
\* and on an export, which set it directly
C23_Amended ==
    [][InSession =>
          \/ current_time' >= current_time
          \/ WrapTick
          \/ OnTimeSliderChanged
          \/ ExportVideo
          \/ ExportVideoRaises]_vars

\* playing, three ticks into the session, a vehicle with two waypoints
C23_Witness ==
    /\ is_playing
    /\ current_time = 3 * TickStep
    /\ Len(vehicles) > 0
    /\ Len(vehicles[1].trajectory) = 2

\* C24: current_time is never negative and never greater than max_time
C24_TimeWithinClock == 0 <= current_time /\ current_time <= max_time

\* playing at the very end of a scenario shorter than the initial 10 s,
\* after an export
C24_Witness ==
    /\ is_playing
    /\ current_time = max_time
    /\ max_time < InitialMaxTime
    /\ exported # NoVideo

\* ------------------------------------------------------------------------
\* Claims about project files (checked under SpecProject)
\* ------------------------------------------------------------------------
\* the ids of a list of entities, in order
IdList(list) == [i \in 1..Len(list) |-> list[i].id]

\* C25: round trip: load_project of the document that save_project wrote
\* for the store yields the same store; for a document written by
\* vehicle_editor_fixed.py the loaded store has that editor's vehicles,
\* cameras and labels, by id and text
C25_RoundTrip ==
    [][LoadProjectWA =>
          /\ document = ProjectDataWA(store_wa) => store_wa' = store_wa
          /\ document = ProjectData =>
                /\ IdList(store_wa'.vehicles) = IdList(vehicles)
                /\ IdList(store_wa'.cameras) = IdList(cameras)
                /\ store_wa'.text_labels = text_labels]_vars

\* ------------------------------------------------------------------------
\* Claims about the pauses of vehicle_editor_v3.py (checked under SpecInterp)
\* ------------------------------------------------------------------------
\* arrival times strictly increasing, the first one 0
IncreasingFromZero(traj) ==
    /\ Len(traj) > 0
    /\ traj[1].time = 0
    /\ \A i \in 1..(Len(traj) - 1) : traj[i].time < traj[i + 1].time

\* a waypoint that is not the last one, pauses, and is the first to pause,
\* so that the vehicle arrives at it at its arrival time
FirstPausing(traj, i) ==
    /\ i < Len(traj)
    /\ traj[i].pause_duration > 0
    /\ \A j \in 1..(i - 1) : traj[j].pause_duration = 0

\* C26: in get_position_at_time of vehicle_editor_v3.py, for arrival times
\* strictly increasing from 0, the vehicle is at a pausing non-final waypoint
\* P from its arrival at P until the pause is over, and is not at P again
\* once it has left
C26_PauseAtArrivalV3 ==
    (position_v3 # NoCall /\ IncreasingFromZero(trajectory)) =>
        \A i \in 1..Len(trajectory) :
            FirstPausing(trajectory, i) =>
                /\ (trajectory[i].time <= t /\ t < Departure(trajectory[i]))
                      => position_v3 = PointPos(trajectory[i])
                /\ t > Departure(trajectory[i])
                      => position_v3 # PointPos(trajectory[i])

\* ------------------------------------------------------------------------
\* Claims about the three interpolators (checked under SpecCompare)
\* ------------------------------------------------------------------------
NoPauses(traj) == \A i \in 1..Len(traj) : traj[i].pause_duration = 0

AllCalled ==
    position # NoCall /\ position_v3 # NoCall /\ position_wa # NoCall

C28_DurationIsScenarioLength ==
    [][(ExportVideo /\ MaxT(vehicles) > 0)
          => /\ max_time = MaxT(vehicles)
             /\ exported'.frames = RenderFrames(TotalFrames(MaxT(vehicles)))]_vars

\* ------------------------------------------------------------------------
\* Claims about the trajectory-edit target (checked under SpecTarget)
\* ------------------------------------------------------------------------
\* C29: in every reachable state scene.current_vehicle is None or a vehicle
\* in the store, so that after remove_vehicle no click appends a waypoint
\* to a vehicle that has been removed.
C29_TargetInStore ==
    current_vehicle = None \/ current_vehicle \in IdsOf(vehicles)

\* ------------------------------------------------------------------------
\* Claims about editing while playing (checked under SpecClock)
\* ------------------------------------------------------------------------
\* C30: no waypoint is appended to a vehicle while the clock is Playing:
\* trajectory-edit mode and the Playing state are never both in effect when
\* a scene click is handled.
C30_NoWaypointWhilePlaying ==
    [][MousePressEvent => ~(is_playing /\ selecting_trajectory)]_vars

====
